---- MODULE Spec2Model ----
(***************************************************************************)
(* Model of enhanced_sumo_ev3.py: the control loop of a two-wheeled sumo   *)
(* robot (SEARCH -> LOCKON -> APPROACH -> PUSH, edge recovery), its PID    *)
(* controller and its drive mixer.                                         *)
(*                                                                         *)
(* Units.  The program computes on floats; the model uses fixed point:     *)
(*   speeds      1/SpeedUnit percent        (SpeedPercent(20) = 200000)    *)
(*   times       milliseconds               (EDGE_BACKUP_TIME = 500)       *)
(*   distances   whole centimetres; the centre distance is kept doubled    *)
(*   PID error   1/ErrUnit                  (error 1.0 = 1000)             *)
(*   PID gains   hundredths                 (KP = 120 is 1.2)              *)
(* Python's None is the value None below; it is outside every input set.   *)
(***************************************************************************)
EXTENDS Integers, Sequences, FiniteSets, TLC

VARIABLES
    pc,          \* "run": in main_loop's while; "crashed": an exception left
                 \* the program; "stopped": KeyboardInterrupt was handled
    state,       \* main_loop's local `state`
    push_start,  \* main_loop's local `push_start`
    pid,         \* the module-level PID object: [prev, int, last]
    clock,       \* the last value time() returned
    motor,       \* the last command the tank received
    tick,        \* what the last executed loop iteration did (history)
    unit         \* a call of drive or of the PID made on its own: the
                 \* arguments and what came back (NoUnit inside main_loop)

vars == <<pc, state, push_start, pid, clock, motor, tick, unit>>

---------------------------------------------------------------------------
(* Bounds of the input sets *)

ReflectStep == 20
MaxReflect == 2
NearSpan == 1
ClockStep == 2500
MaxClock == 2
BaseStep == 50
CorrStep == 25
ErrStep == 2500
MaxErr == 5000
MaxCalls == 3

---------------------------------------------------------------------------
(* Configuration, lines 29-52 *)

None == -1

BUMPER_PORT == None
BASE_SPEED_SEARCH == 20
BASE_SPEED_APPROACH == 30
BASE_SPEED_PUSH_Over == 4 * BASE_SPEED_APPROACH
BASE_SPEED_PUSH == 85
REFLECT_WHITE_THRESHOLD == 40
US_DETECT_CM == 25
US_PUSH_CM == 7
KP == 120
KI == 1
KD == 8
PID_LIMIT == 40
PUSH_MAX_TIME == 2000
EDGE_BACKUP_TIME == 500
EDGE_ROTATE_TIME == 600

STATE_SEARCH == "SEARCH"
STATE_LOCKON == "LOCKON"
STATE_APPROACH == "APPROACH"
STATE_PUSH == "PUSH"
STATE_RECOVER == "RECOVER"

SpeedUnit == 10000
ErrUnit == 1000

(* The names bound in the module's global namespace when main_loop runs:   *)
(* the imports of lines 16-20 and the top-level assignments, defs and      *)
(* class.  A global name outside this set raises NameError when it is      *)
(* evaluated.                                                              *)
ModuleNames ==
    {"LargeMotor", "MoveTank", "OUTPUT_B", "OUTPUT_C", "SpeedPercent",
     "UltrasonicSensor", "ColorSensor",
     "INPUT_1", "INPUT_2", "INPUT_3", "INPUT_4",
     "sleep", "time", "csv", "os",
     "tank", "us_left", "us_right", "cs_left", "cs_right",
     "ensure_log_folder", "log_row", "read_reflectance", "edge_detected",
     "us_distance_cm", "PID", "pid", "stop", "drive", "reverse", "rotate",
     "main_loop", "BUMPER_PORT"}

---------------------------------------------------------------------------
(* Inputs: what the sensors and the clock can return *)

Reflectance == {ReflectStep * k : k \in 0..MaxReflect}

Distances ==
    {0} \cup {US_PUSH_CM + k : k \in (0 - 1)..NearSpan}
        \cup {US_DETECT_CM - 1, US_DETECT_CM}

(* us_distance_cm: the reading, or None when the driver raises *)
us_distance_cm == Distances \cup {None}

Instants == {ClockStep * k : k \in 1..MaxClock}

---------------------------------------------------------------------------
(* Arithmetic helpers *)

Max(a, b) == IF a >= b THEN a ELSE b
Min(a, b) == IF a <= b THEN a ELSE b
Abs(a) == IF a >= 0 THEN a ELSE 0 - a

(* float division, rounded toward zero in fixed point *)
Quot(a, b) == IF a >= 0 THEN a \div b ELSE 0 - ((0 - a) \div b)

(* Python truth value of an optional number: None and 0 are both false *)
Truthy_NonZero(x) == x # 0

Truthy(x) == x # None /\ x # 0

(* an integer percentage as a fixed-point speed *)
SpeedPercent(p) == p * SpeedUnit

---------------------------------------------------------------------------
(* Motor commands *)

Stop == [op |-> "stop", l |-> 0, r |-> 0, sec |-> 0]
On(l, r) == [op |-> "on", l |-> l, r |-> r, sec |-> 0]
OnFor(l, r, sec) == [op |-> "on_for", l |-> l, r |-> r, sec |-> sec]

(* The tank's calls (ev3dev2) are recorded as the program makes them, with  *)
(* the speeds and the duration it passes; each call returns.               *)

(* lines 143-145 *)
reverse_default_sec == 0 - EDGE_BACKUP_TIME
reverse_default_power == 0 - 30
reverse_Forward(sec, power) ==
    <<OnFor(SpeedPercent(0 - power), SpeedPercent(0 - power), sec), Stop>>

reverse(sec, power) ==
    <<OnFor(SpeedPercent(power), SpeedPercent(power), sec), Stop>>

(* lines 147-149 *)
rotate(left_speed, right_speed, seconds) ==
    <<OnFor(SpeedPercent(left_speed), SpeedPercent(right_speed), seconds), Stop>>

(* lines 136-141: the clamped pair that is sent to the tank and returned *)
clamp_NoFloor(v) == Min(SpeedPercent(100), v)
clamp(v) == Max(0 - SpeedPercent(100), Min(SpeedPercent(100), v))
drive(base, left_correction) ==
    [l |-> clamp(base - left_correction), r |-> clamp(base + left_correction)]

---------------------------------------------------------------------------
(* Edge check, lines 92-95 *)

edge_detected_both(l, r) ==
    (l >= REFLECT_WHITE_THRESHOLD) /\ (r >= REFLECT_WHITE_THRESHOLD)

edge_detected(l, r) ==
    (l >= REFLECT_WHITE_THRESHOLD) \/ (r >= REFLECT_WHITE_THRESHOLD)

---------------------------------------------------------------------------
(* PID, lines 104-122 *)

DT_DEFAULT == 10
DT_MIN == 1

(* lines 105-108: the fields of a newly constructed controller *)
PIDFresh == [prev |-> 0, int |-> 0, last |-> None]

(* lines 109-110 *)
PIDReset_StaleLast == [prev |-> 0, int |-> 0, last |-> ClockStep]

PIDReset == [prev |-> 0, int |-> 0, last |-> None]

(* compute(error) called when time() returns now: the output and the      *)
(* object's new fields                                                     *)
PIDCompute_NoFloor(p, error, now) ==
    LET dt == IF p.last = None THEN DT_DEFAULT ELSE now - p.last
        int == p.int + error * dt
        derivative == IF dt > 0 THEN Quot(1000 * (error - p.prev), dt) ELSE 0
        raw == Quot(KP * error, 10) + Quot(KI * int, 10000)
                 + Quot(KD * derivative, 10)
        lim == SpeedPercent(PID_LIMIT)
        out == IF PID_LIMIT # None
               THEN (IF raw > lim THEN lim ELSE IF raw < 0 - lim THEN 0 - lim ELSE raw)
               ELSE raw
    IN  [out |-> out, dt |-> dt,
         pid |-> [prev |-> error, int |-> int, last |-> now]]

PIDCompute(p, error, now) ==
    LET dt == IF p.last = None THEN DT_DEFAULT ELSE Max(DT_MIN, now - p.last)
        int == p.int + error * dt
        derivative == IF dt > 0 THEN Quot(1000 * (error - p.prev), dt) ELSE 0
        raw == Quot(KP * error, 10) + Quot(KI * int, 10000)
                 + Quot(KD * derivative, 10)
        lim == SpeedPercent(PID_LIMIT)
        out == IF PID_LIMIT # None
               THEN (IF raw > lim THEN lim ELSE IF raw < 0 - lim THEN 0 - lim ELSE raw)
               ELSE raw
    IN  [out |-> out, dt |-> dt,
         pid |-> [prev |-> error, int |-> int, last |-> now]]

(* line 206 *)
SteeringError(us_l, us_r) ==
    Quot(ErrUnit * (us_r - us_l), Max(1, us_r + us_l))

(* lines 174-177: twice the centre distance, or None *)
Center2(us_l, us_r) ==
    IF Truthy(us_l) /\ Truthy(us_r) THEN us_l + us_r ELSE None

---------------------------------------------------------------------------
(* History of one loop iteration.  cs_l/cs_r are the reflectances read by  *)
(* edge_detected (line 158), rot_l/rot_r those read at line 163, log_l/    *)
(* log_r those read at line 225; cmds are the commands sent to the tank,   *)
(* rows the rows handed to log_row, slept the sleep() calls, all in order; *)
(* fault is the exception that ended the iteration, if one did.            *)

NoTick ==
    [state0 |-> "none", branch |-> "none",
     cs_l |-> None, cs_r |-> None, rot_l |-> None, rot_r |-> None,
     log_l |-> None, log_r |-> None,
     us_l |-> None, us_r |-> None, us_center2 |-> None,
     error |-> 0, pid_out |-> 0, pid_calls |-> 0,
     left_speed_cmd |-> 0, right_speed_cmd |-> 0,
     cmds |-> <<>>, rows |-> <<>>, slept |-> <<>>,
     reached_log |-> FALSE, fault |-> "none"]

Idle == [op |-> "none", l |-> 0, r |-> 0, sec |-> 0]

NoUnit == [fn |-> "none"]

(* lines 172-180: the distance sample and the logging defaults *)
Sampled(l, r, us_l, us_r, branch) ==
    [NoTick EXCEPT !.state0 = state, !.branch = branch,
                   !.cs_l = l, !.cs_r = r,
                   !.us_l = us_l, !.us_r = us_r,
                   !.us_center2 = Center2(us_l, us_r)]

(* The iteration is over: by `continue`, by falling off the loop body, or  *)
(* by an exception that nothing in the program catches.                    *)
EndTick(st, ps, p, clk, rec) ==
    /\ state' = st
    /\ push_start' = ps
    /\ pid' = p
    /\ clock' = clk
    /\ motor' = IF rec.cmds = <<>> THEN motor ELSE rec.cmds[Len(rec.cmds)]
    /\ tick' = rec
    /\ pc' = IF rec.fault = "none" THEN "run" ELSE "crashed"
    /\ UNCHANGED unit

(* lines 223-226: timestamp, log row, sleep *)
LogAndSleep(st, ps, p, clk, rec) ==
    IF "datetime" \in ModuleNames
    THEN \E l3 \in Reflectance, r3 \in Reflectance :
            EndTick(st, ps, p, clk,
                [rec EXCEPT !.reached_log = TRUE,
                            !.log_l = l3, !.log_r = r3,
                            !.rows = <<[state |-> st,
                                        us_l |-> rec.us_l, us_r |-> rec.us_r,
                                        cs_left |-> l3, cs_right |-> r3,
                                        error |-> rec.error,
                                        pid_out |-> rec.pid_out,
                                        left_speed |-> rec.left_speed_cmd,
                                        right_speed |-> rec.right_speed_cmd]>>,
                            !.slept = Append(rec.slept, 20)])
    ELSE EndTick(st, ps, p, clk,
                [rec EXCEPT !.reached_log = TRUE,
                            !.fault = "NameError: datetime"])

---------------------------------------------------------------------------
(* main_loop, lines 151-226 *)

(* lines 152-154 *)
Init ==
    /\ pc = "run"
    /\ state = STATE_SEARCH
    /\ pid = PIDReset
    /\ push_start = None
    /\ clock = ClockStep
    /\ motor = Idle
    /\ tick = NoTick
    /\ unit = NoUnit

(* lines 158-170: edge priority *)
TickEdge ==
    /\ pc = "run"
    /\ \E l \in Reflectance, r \in Reflectance :
        /\ edge_detected(l, r)
        /\ \E l2 \in Reflectance, r2 \in Reflectance :
              EndTick(STATE_SEARCH, push_start, PIDReset, clock,
                  [NoTick EXCEPT
                     !.state0 = state, !.branch = "edge",
                     !.cs_l = l, !.cs_r = r,
                     !.rot_l = l2, !.rot_r = r2,
                     !.cmds = <<Stop>>
                        \o reverse(reverse_default_sec, reverse_default_power)
                        \o (IF l2 > r2
                            THEN rotate(0 - 30, 30, EDGE_ROTATE_TIME)
                            ELSE rotate(30, 0 - 30, EDGE_ROTATE_TIME))])

(* lines 182-186 *)
TickSearch ==
    /\ pc = "run"
    /\ state = STATE_SEARCH
    /\ \E l \in Reflectance, r \in Reflectance,
          us_l \in us_distance_cm, us_r \in us_distance_cm :
        /\ ~edge_detected(l, r)
        /\ LET rec0 == Sampled(l, r, us_l, us_r, "search")
               spin == On(SpeedPercent(BASE_SPEED_SEARCH),
                          SpeedPercent(0 - BASE_SPEED_SEARCH))
           IN IF (Truthy(us_l) /\ us_l < US_DETECT_CM)
                    \/ (Truthy(us_r) /\ us_r < US_DETECT_CM)
              THEN EndTick(STATE_LOCKON, push_start, PIDReset, clock,
                       [rec0 EXCEPT !.cmds = <<spin, Stop>>,
                                    !.slept = <<50>>])
              ELSE LogAndSleep(state, push_start, pid, clock,
                       [rec0 EXCEPT !.cmds = <<spin>>])

(* lines 188-201 *)
TickLockon_SkipsApproach ==
    /\ pc = "run"
    /\ state = STATE_LOCKON
    /\ \E l \in Reflectance, r \in Reflectance,
          us_l \in us_distance_cm, us_r \in us_distance_cm :
        /\ ~edge_detected(l, r)
        /\ LET rec0 == Sampled(l, r, us_l, us_r, "lockon")
           IN IF Truthy(us_l) /\ Truthy(us_r)
              THEN IF Abs(us_l - us_r) < 2
                   THEN LogAndSleep(STATE_PUSH, push_start, pid, clock, rec0)
                   ELSE IF us_l < us_r
                   THEN LogAndSleep(state, push_start, pid, clock,
                            [rec0 EXCEPT !.cmds =
                                <<On(SpeedPercent(15), SpeedPercent(0 - 15))>>])
                   ELSE LogAndSleep(state, push_start, pid, clock,
                            [rec0 EXCEPT !.cmds =
                                <<On(SpeedPercent(0 - 15), SpeedPercent(15))>>])
              ELSE LogAndSleep(STATE_SEARCH, push_start, pid, clock,
                       [rec0 EXCEPT !.cmds =
                           <<OnFor(SpeedPercent(15), SpeedPercent(15), 250)>>])

TickLockon ==
    /\ pc = "run"
    /\ state = STATE_LOCKON
    /\ \E l \in Reflectance, r \in Reflectance,
          us_l \in us_distance_cm, us_r \in us_distance_cm :
        /\ ~edge_detected(l, r)
        /\ LET rec0 == Sampled(l, r, us_l, us_r, "lockon")
           IN IF Truthy(us_l) /\ Truthy(us_r)
              THEN IF Abs(us_l - us_r) < 2
                   THEN LogAndSleep(STATE_APPROACH, push_start, pid, clock, rec0)
                   ELSE IF us_l < us_r
                   THEN LogAndSleep(state, push_start, pid, clock,
                            [rec0 EXCEPT !.cmds =
                                <<On(SpeedPercent(15), SpeedPercent(0 - 15))>>])
                   ELSE LogAndSleep(state, push_start, pid, clock,
                            [rec0 EXCEPT !.cmds =
                                <<On(SpeedPercent(0 - 15), SpeedPercent(15))>>])
              ELSE LogAndSleep(STATE_SEARCH, push_start, pid, clock,
                       [rec0 EXCEPT !.cmds =
                           <<OnFor(SpeedPercent(15), SpeedPercent(15), 250)>>])

(* lines 203-214 *)
TickApproach ==
    /\ pc = "run"
    /\ state = STATE_APPROACH
    /\ \E l \in Reflectance, r \in Reflectance,
          us_l \in us_distance_cm, us_r \in us_distance_cm :
        /\ ~edge_detected(l, r)
        /\ LET rec0 == Sampled(l, r, us_l, us_r, "approach")
           IN IF Truthy(us_l) /\ Truthy(us_r)
              THEN \E t1 \in Instants :
                   LET error == SteeringError(us_l, us_r)
                       res == PIDCompute(pid, error, t1)
                       d == drive(SpeedPercent(BASE_SPEED_APPROACH), res.out)
                       rec1 == [rec0 EXCEPT !.error = error,
                                            !.pid_out = res.out,
                                            !.pid_calls = 1,
                                            !.left_speed_cmd = d.l,
                                            !.right_speed_cmd = d.r,
                                            !.cmds = <<On(d.l, d.r)>>]
                       us_center2 == rec0.us_center2
                   IN IF Truthy(us_center2) /\ us_center2 <= 2 * US_PUSH_CM
                      THEN \E t2 \in Instants :
                              LogAndSleep(STATE_PUSH, t2, res.pid, t2, rec1)
                      ELSE IF "has_bumper" \in ModuleNames
                      THEN LogAndSleep(state, push_start, res.pid, t1, rec1)
                      ELSE EndTick(state, push_start, res.pid, t1,
                              [rec1 EXCEPT !.fault = "NameError: has_bumper"])
              ELSE LogAndSleep(STATE_SEARCH, push_start, PIDReset, clock,
                       [rec0 EXCEPT !.cmds = <<Stop>>])

TickPush_NoReset ==
    /\ pc = "run"
    /\ state = STATE_PUSH
    /\ \E l \in Reflectance, r \in Reflectance,
          us_l \in us_distance_cm, us_r \in us_distance_cm :
        /\ ~edge_detected(l, r)
        /\ LET rec0 == Sampled(l, r, us_l, us_r, "push")
               full == On(SpeedPercent(BASE_SPEED_PUSH),
                          SpeedPercent(BASE_SPEED_PUSH))
           IN IF Truthy(push_start)
              THEN \E t \in Instants :
                   IF t - push_start > PUSH_MAX_TIME
                   THEN LogAndSleep(STATE_SEARCH, push_start, pid, t,
                            [rec0 EXCEPT !.cmds = <<full, Stop>>
                                \o reverse(400, 0 - 40)
                                \o rotate(30, 0 - 30, EDGE_ROTATE_TIME)])
                   ELSE LogAndSleep(state, push_start, pid, t,
                            [rec0 EXCEPT !.cmds = <<full>>])
              ELSE LogAndSleep(state, push_start, pid, clock,
                       [rec0 EXCEPT !.cmds = <<full>>])

(* lines 216-221 *)
TickPush ==
    /\ pc = "run"
    /\ state = STATE_PUSH
    /\ \E l \in Reflectance, r \in Reflectance,
          us_l \in us_distance_cm, us_r \in us_distance_cm :
        /\ ~edge_detected(l, r)
        /\ LET rec0 == Sampled(l, r, us_l, us_r, "push")
               full == On(SpeedPercent(BASE_SPEED_PUSH),
                          SpeedPercent(BASE_SPEED_PUSH))
           IN IF Truthy(push_start)
              THEN \E t \in Instants :
                   IF t - push_start > PUSH_MAX_TIME
                   THEN LogAndSleep(STATE_SEARCH, push_start, PIDReset, t,
                            [rec0 EXCEPT !.cmds = <<full, Stop>>
                                \o reverse(400, 0 - 40)
                                \o rotate(30, 0 - 30, EDGE_ROTATE_TIME)])
                   ELSE LogAndSleep(state, push_start, pid, t,
                            [rec0 EXCEPT !.cmds = <<full>>])
              ELSE LogAndSleep(state, push_start, pid, clock,
                       [rec0 EXCEPT !.cmds = <<full>>])

(* lines 228-233: KeyboardInterrupt raised inside main_loop *)
Interrupt ==
    /\ pc = "run"
    /\ pc' = "stopped"
    /\ motor' = Stop
    /\ UNCHANGED <<state, push_start, pid, clock, tick, unit>>

(* One step of the while loop from any loop-top state, or the interrupt *)
LoopBody ==
    \/ TickEdge
    \/ TickSearch
    \/ TickLockon
    \/ TickApproach
    \/ TickPush
    \/ Interrupt

(* The program as run from construction.  Every iteration that gets past   *)
(* SEARCH's detection `continue` or the edge `continue` reaches line 224   *)
(* and faults there, so no iteration of a run starts in APPROACH or PUSH:  *)
(* the steps of a run are these.                                           *)
Next ==
    \/ TickEdge
    \/ TickSearch
    \/ TickLockon
    \/ Interrupt

Spec == Init /\ [][Next]_vars

---------------------------------------------------------------------------
(* The loop body taken from any loop-top state main_loop is written to     *)
(* hold between iterations: any of the four stored states, the push timer  *)
(* running exactly in PUSH, the PID fresh in SEARCH and LOCKON and         *)
(* carrying the history of an earlier compute in APPROACH and PUSH.        *)

States == {STATE_SEARCH, STATE_LOCKON, STATE_APPROACH, STATE_PUSH}

PIDHistories(t) ==
    {PIDReset} \cup
    {PIDCompute(PIDReset, SteeringError(a, US_PUSH_CM), t).pid :
        a \in Distances \ {0}}

TickInit ==
    /\ pc = "run"
    /\ state \in States
    /\ clock \in Instants
    /\ push_start \in (IF state = STATE_PUSH
                       THEN {t \in Instants : t <= clock} ELSE {None})
    /\ pid \in (IF state \in {STATE_SEARCH, STATE_LOCKON}
                THEN {PIDReset} ELSE PIDHistories(clock))
    /\ motor = Idle
    /\ tick = NoTick
    /\ unit = NoUnit

TickSpec == TickInit /\ [][LoopBody]_vars

---------------------------------------------------------------------------
(* drive() called on its own, lines 136-141: the arguments the mixer is    *)
(* specified for, in percent                                               *)

Bases == {b \in (0 - 100)..100 : b % BaseStep = 0}
Corrs == {c \in (0 - 1000)..1000 : c % CorrStep = 0}

DriveInit ==
    /\ pc = "run"
    /\ state = STATE_SEARCH
    /\ pid = PIDReset
    /\ push_start = None
    /\ clock = ClockStep
    /\ motor = Idle
    /\ tick = NoTick
    /\ unit = [fn |-> "drive", done |-> FALSE, base |-> 0, corr |-> 0,
               l |-> 0, r |-> 0]

(* one call drive(base, left_correction): the speeds go to the tank and    *)
(* are returned                                                            *)
DriveCall ==
    \E b \in Bases, c \in Corrs :
        LET d == drive(SpeedPercent(b), SpeedPercent(c))
        IN  /\ unit.fn = "drive"
            /\ motor' = On(d.l, d.r)
            /\ unit' = [fn |-> "drive", done |-> TRUE,
                        base |-> SpeedPercent(b), corr |-> SpeedPercent(c),
                        l |-> d.l, r |-> d.r]
            /\ UNCHANGED <<pc, state, push_start, pid, clock, tick>>

DriveNext == DriveCall

DriveSpec == DriveInit /\ [][DriveNext]_vars

---------------------------------------------------------------------------
(* The PID controller used on its own, lines 104-122: any sequence of      *)
(* compute and reset calls, with any clock reading at each compute         *)

PidErrors == {e \in (0 - MaxErr)..MaxErr : e % ErrStep = 0}

PIDInit ==
    /\ pc = "run"
    /\ state = STATE_SEARCH
    /\ pid = PIDFresh
    /\ push_start = None
    /\ clock = ClockStep
    /\ motor = Idle
    /\ tick = NoTick
    /\ unit = [fn |-> "pid", op |-> "new", was |-> "new", calls |-> 0,
               dirty |-> FALSE, e |-> 0, now |-> None,
               last0 |-> None, int0 |-> 0, prev0 |-> 0,
               out |-> 0, dt |-> 0]

(* compute(e) with time() returning now; the clock may stand still or go   *)
(* backwards between calls                                                 *)
PIDComputeCall ==
    \E e \in PidErrors, now \in Instants :
        LET res == PIDCompute(pid, e, now)
        IN  /\ unit.fn = "pid"
            /\ unit.calls < MaxCalls
            /\ pid' = res.pid
            /\ clock' = now
            /\ unit' = [fn |-> "pid", op |-> "compute", was |-> unit.op,
                        calls |-> unit.calls + 1,
                        dirty |-> (unit.op = "reset" /\ unit.dirty),
                        e |-> e, now |-> now,
                        last0 |-> pid.last, int0 |-> pid.int,
                        prev0 |-> pid.prev,
                        out |-> res.out, dt |-> res.dt]
            /\ UNCHANGED <<pc, state, push_start, motor, tick>>

(* reset() after at least one compute *)
PIDResetCall ==
    /\ unit.fn = "pid"
    /\ unit.op = "compute"
    /\ pid' = PIDReset
    /\ unit' = [unit EXCEPT !.op = "reset", !.was = unit.op,
                            !.dirty = (pid.prev # 0 /\ pid.int # 0)]
    /\ UNCHANGED <<pc, state, push_start, clock, motor, tick>>

PIDNext == PIDComputeCall \/ PIDResetCall

PIDSpec == PIDInit /\ [][PIDNext]_vars

---------------------------------------------------------------------------
(* Vocabulary of the properties: facts about the last iteration, read off  *)
(* the values it sampled and the commands it sent                          *)

Ticked == tick.state0 # "none"

(* the reflectances the edge check of the iteration evaluated tripped it *)
EdgeSeen ==
    /\ Ticked
    /\ (tick.cs_l >= REFLECT_WHITE_THRESHOLD \/ tick.cs_r >= REFLECT_WHITE_THRESHOLD)

NoEdgeSeen ==
    /\ Ticked
    /\ tick.cs_l < REFLECT_WHITE_THRESHOLD
    /\ tick.cs_r < REFLECT_WHITE_THRESHOLD

(* the commands of the recovery maneuver: stop, reverse, rotate either way *)
RecoveryCmds ==
    {Stop,
     OnFor(SpeedPercent(0 - 30), SpeedPercent(0 - 30), 0 - EDGE_BACKUP_TIME),
     OnFor(SpeedPercent(0 - 30), SpeedPercent(30), EDGE_ROTATE_TIME),
     OnFor(SpeedPercent(30), SpeedPercent(0 - 30), EDGE_ROTATE_TIME)}

LastCmd == tick.cmds[Len(tick.cmds)]

Sign(x) == IF x > 0 THEN 1 ELSE IF x < 0 THEN 0 - 1 ELSE 0

(* the PID holds no history: integral 0, previous error 0, no timestamp *)
PidIsReset == pid.prev = 0 /\ pid.int = 0 /\ pid.last = None

---------------------------------------------------------------------------
(* Properties *)

(* C1: edge override precedence.  From every state, an iteration whose     *)
(* edge check is true sends only the commands of the recovery maneuver,    *)
(* samples no distance, calls no PID compute and logs nothing, and ends    *)
(* with the state SEARCH and the PID reset; an iteration that starts in    *)
(* APPROACH with the edge tripped never ends in PUSH.                      *)
C1_EdgeOverride ==
    EdgeSeen =>
        /\ \A i \in 1..Len(tick.cmds) : tick.cmds[i] \in RecoveryCmds
        /\ tick.cmds # <<>> /\ tick.cmds[1] = Stop
        /\ tick.pid_calls = 0
        /\ tick.us_center2 = None /\ tick.us_l = None /\ tick.us_r = None
        /\ tick.rows = <<>>
        /\ tick.fault = "none"
        /\ state = STATE_SEARCH /\ pid = PIDReset
        /\ (tick.state0 = STATE_APPROACH => state # STATE_PUSH)

(* C1 witness: an iteration that started in APPROACH found the edge check *)
(* true, ran the whole recovery and ended in SEARCH                        *)
C1_Witness ==
    /\ EdgeSeen
    /\ tick.state0 = STATE_APPROACH
    /\ tick.fault = "none"
    /\ Len(tick.cmds) = 5
    /\ state = STATE_SEARCH
    /\ pc = "run"

(* C2: the control loop never ends on its own: every iteration completes   *)
(* and the loop goes on to the next one; main_loop stops only by an        *)
(* external interrupt, never by an exception of its own.                   *)
C2_LoopNeverFaults == pc # "crashed"

(* C3: whenever the program has stopped running, by whatever route it left *)
(* main_loop, the last command the motors received is stop.                *)
C3_MotorsStoppedOnExit == (pc \in {"crashed", "stopped"}) => motor = Stop

(* C4: every iteration of the loop that completes, whichever branch it     *)
(* took, has handed exactly one row to the logger and then slept the fixed *)
(* tick interval (20 ms), and nothing else.                                *)
C4_OneEventPerTick ==
    (Ticked /\ tick.fault = "none") =>
        (Len(tick.rows) = 1 /\ tick.slept = <<20>>)

C6_ZeroIsPresent ==
    NoEdgeSeen =>
        /\ (tick.state0 = STATE_SEARCH
              /\ ((tick.us_l # None /\ tick.us_l < US_DETECT_CM)
                    \/ (tick.us_r # None /\ tick.us_r < US_DETECT_CM)))
             => (state = STATE_LOCKON /\ LastCmd = Stop /\ pid = PIDReset)
        /\ tick.us_center2 =
             (IF tick.us_l # None /\ tick.us_r # None
              THEN tick.us_l + tick.us_r ELSE None)

(* C7: each sensor is sampled at most once per iteration: the reflectance  *)
(* pair that decides the direction of the edge recovery's rotation, and    *)
(* the pair written to the log row, are the pair the edge check read.      *)
C7_SingleSample ==
    Ticked =>
        /\ (tick.rot_l # None => tick.rot_l = tick.cs_l /\ tick.rot_r = tick.cs_r)
        /\ (tick.log_l # None => tick.log_l = tick.cs_l /\ tick.log_r = tick.cs_r)

(* C8: edge recovery rotates away from the triggering side.  When the edge *)
(* check trips with the left reflectance higher than the right (and the    *)
(* readings hold still during the iteration, so that the re-read of C7     *)
(* plays no part), the rotate command has left speed > right speed; when   *)
(* the right one is higher, left speed < right speed; the iteration ends   *)
(* in SEARCH.                                                              *)
C8_RotateAwayFromEdge ==
    (EdgeSeen /\ Len(tick.cmds) = 5
        /\ tick.rot_l = tick.cs_l /\ tick.rot_r = tick.cs_r) =>
        /\ (tick.cs_l > tick.cs_r => tick.cmds[4].l > tick.cmds[4].r)
        /\ (tick.cs_r > tick.cs_l => tick.cmds[4].l < tick.cmds[4].r)
        /\ state = STATE_SEARCH

(* C9: a LOCKON iteration with no edge, both distances present (and above  *)
(* zero) and differing by at least the alignment tolerance turns toward    *)
(* the closer side: left closer gives left speed < right speed, right      *)
(* closer gives left speed > right speed, the direction the first          *)
(* PID-steered APPROACH command after a reset has for the same readings.   *)
C9_LockonTurnsToCloser ==
    (NoEdgeSeen /\ tick.state0 = STATE_LOCKON
        /\ tick.us_l # None /\ tick.us_r # None
        /\ tick.us_l > 0 /\ tick.us_r > 0
        /\ Abs(tick.us_l - tick.us_r) >= 2) =>
        LET d == drive(SpeedPercent(BASE_SPEED_APPROACH),
                       PIDCompute(PIDReset,
                                  SteeringError(tick.us_l, tick.us_r),
                                  clock).out)
        IN /\ tick.cmds # <<>>
           /\ (tick.us_l < tick.us_r => LastCmd.l < LastCmd.r)
           /\ (tick.us_r < tick.us_l => LastCmd.l > LastCmd.r)
           /\ Sign(LastCmd.r - LastCmd.l) = Sign(d.r - d.l)

C11_PidResetOnEntry ==
    /\ (state \in {STATE_SEARCH, STATE_LOCKON} => PidIsReset)
    /\ (Ticked /\ state # tick.state0
          /\ state \in {STATE_APPROACH, STATE_SEARCH}) => PidIsReset

(* C11 witness: a push timeout took the loop from PUSH into SEARCH *)
C11_Witness ==
    /\ NoEdgeSeen
    /\ tick.state0 = STATE_PUSH
    /\ Len(tick.cmds) = 6
    /\ state = STATE_SEARCH
    /\ PidIsReset

(* C12: push timeout recovery.  An iteration that starts in PUSH with no   *)
(* edge and reads a clock more than the maximum push duration past the     *)
(* push start sends, after the push drive and in this order, stop, the     *)
(* back-off (reverse at 40 for 0.4 s), stop, the default rotate, stop, and *)
(* ends with the state SEARCH and the PID reset.  So an iteration leaves   *)
(* the state PUSH standing only while no edge is seen and the elapsed time *)
(* is within the maximum: the loop cannot keep ticking in PUSH once time   *)
(* has advanced past it.                                                   *)
C12_PushTimeout ==
    /\ (NoEdgeSeen /\ tick.state0 = STATE_PUSH /\ push_start # None
          /\ clock - push_start > PUSH_MAX_TIME) =>
          /\ tick.cmds =
               <<On(SpeedPercent(BASE_SPEED_PUSH), SpeedPercent(BASE_SPEED_PUSH)),
                 [op |-> "stop", l |-> 0, r |-> 0, sec |-> 0],
                 [op |-> "on_for", l |-> 0 - 400000, r |-> 0 - 400000, sec |-> 400],
                 [op |-> "stop", l |-> 0, r |-> 0, sec |-> 0],
                 [op |-> "on_for", l |-> 300000, r |-> 0 - 300000,
                  sec |-> EDGE_ROTATE_TIME],
                 [op |-> "stop", l |-> 0, r |-> 0, sec |-> 0]>>
          /\ state = STATE_SEARCH
          /\ PidIsReset
    /\ (Ticked /\ tick.state0 = STATE_PUSH /\ state = STATE_PUSH) =>
          /\ NoEdgeSeen
          /\ push_start # None
          /\ clock - push_start <= PUSH_MAX_TIME

(* C12 witness: a PUSH iteration found the push older than the maximum and *)
(* ran the recovery                                                        *)
C12_Witness ==
    /\ NoEdgeSeen
    /\ tick.state0 = STATE_PUSH
    /\ push_start # None
    /\ clock - push_start > PUSH_MAX_TIME
    /\ Len(tick.cmds) = 6
    /\ tick.cmds[3].op = "on_for"
    /\ state = STATE_SEARCH

(* C13: lost lock in APPROACH.  An iteration that starts in APPROACH with  *)
(* no edge and with either distance absent (e.g. left absent, right 24 cm) *)
(* does not call the PID compute, sends stop as its last motor command,    *)
(* resets the PID and ends with the state SEARCH.                          *)
C13_LostLock ==
    (NoEdgeSeen /\ tick.state0 = STATE_APPROACH
        /\ (tick.us_l = None \/ tick.us_r = None)) =>
        /\ tick.pid_calls = 0
        /\ tick.pid_out = 0
        /\ tick.cmds # <<>>
        /\ LastCmd = [op |-> "stop", l |-> 0, r |-> 0, sec |-> 0]
        /\ motor.op = "stop"
        /\ PidIsReset
        /\ state = STATE_SEARCH

(* C13 witness: APPROACH lost the left reading while the right one still   *)
(* saw the opponent, and fell back to SEARCH                               *)
C13_Witness ==
    /\ NoEdgeSeen
    /\ tick.state0 = STATE_APPROACH
    /\ tick.us_l = None
    /\ tick.us_r = US_DETECT_CM - 1
    /\ tick.cmds = <<Stop>>
    /\ state = STATE_SEARCH

(* C14: every speed sent to the motors, by continuous commands and by      *)
(* scripted maneuvers alike, in every state and for every PID output, lies *)
(* in [-100, 100] percent.                                                 *)
C14_SpeedsInRange ==
    /\ \A i \in 1..Len(tick.cmds) :
          /\ tick.cmds[i].l >= 0 - 100 * SpeedUnit
          /\ tick.cmds[i].l <= 100 * SpeedUnit
          /\ tick.cmds[i].r >= 0 - 100 * SpeedUnit
          /\ tick.cmds[i].r <= 100 * SpeedUnit
    /\ motor.l >= 0 - 100 * SpeedUnit /\ motor.l <= 100 * SpeedUnit
    /\ motor.r >= 0 - 100 * SpeedUnit /\ motor.r <= 100 * SpeedUnit

(* C14 witness: APPROACH sent a command steered by a saturated PID output  *)
C14_Witness ==
    /\ tick.state0 = STATE_APPROACH
    /\ tick.pid_calls = 1
    /\ Abs(tick.pid_out) = PID_LIMIT * SpeedUnit
    /\ tick.cmds = <<On(tick.left_speed_cmd, tick.right_speed_cmd)>>
    /\ motor.op = "on"
    /\ Abs(motor.r - motor.l) = 2 * PID_LIMIT * SpeedUnit

(* C15: for every base in [-100,100] and correction in [-1000,1000],       *)
(* drive returns left = clamp(base - correction) and right = clamp(base +   *)
(* correction), both in [-100,100]; right - left is twice the correction    *)
(* when neither side is clamped, and a clamped side is exactly +100 or -100 *)
C15_DriveMixer ==
    (unit.fn = "drive" /\ unit.done) =>
        LET hi == 100 * SpeedUnit
            lo == 0 - 100 * SpeedUnit
            wantL == unit.base - unit.corr
            wantR == unit.base + unit.corr
        IN  /\ unit.l >= lo /\ unit.l <= hi
            /\ unit.r >= lo /\ unit.r <= hi
            /\ (wantL >= lo /\ wantL <= hi) => unit.l = wantL
            /\ (wantR >= lo /\ wantR <= hi) => unit.r = wantR
            /\ (wantL >= lo /\ wantL <= hi /\ wantR >= lo /\ wantR <= hi)
                  => unit.r - unit.l = 2 * unit.corr
            /\ wantL > hi => unit.l = hi
            /\ wantL < lo => unit.l = lo
            /\ wantR > hi => unit.r = hi
            /\ wantR < lo => unit.r = lo
            /\ motor = On(unit.l, unit.r)

(* C15 witness: a call whose left side is clamped at -100 while its right  *)
(* side is passed through                                                  *)
C15_Witness ==
    /\ unit.fn = "drive" /\ unit.done
    /\ unit.base - unit.corr < 0 - 100 * SpeedUnit
    /\ unit.l = 0 - 100 * SpeedUnit
    /\ unit.r = unit.base + unit.corr
    /\ unit.r < 100 * SpeedUnit
    /\ unit.corr # 0

(* C16: for every sequence of errors and clock readings, a clock standing  *)
(* still or going backwards included, each output of compute lies within   *)
(* +-limit, and the time delta that accumulates the integral is strictly   *)
(* positive: the default step on the first call after a reset, otherwise   *)
(* the elapsed time floored at the minimum step                            *)
C16_PidBounded ==
    (unit.fn = "pid" /\ unit.op = "compute") =>
        /\ unit.out <= PID_LIMIT * SpeedUnit
        /\ unit.out >= 0 - PID_LIMIT * SpeedUnit
        /\ unit.dt > 0
        /\ unit.last0 = None => unit.dt = DT_DEFAULT
        /\ (unit.last0 # None /\ unit.now - unit.last0 >= DT_MIN)
              => unit.dt = unit.now - unit.last0
        /\ (unit.last0 # None /\ unit.now - unit.last0 < DT_MIN)
              => unit.dt = DT_MIN
        /\ pid.int = unit.int0 + unit.e * unit.dt
        /\ pid.prev = unit.e
        /\ pid.last = unit.now

(* C16 witness: a compute whose clock reading is earlier than the previous *)
(* one, with the output at the limit                                       *)
C16_Witness ==
    /\ unit.fn = "pid" /\ unit.op = "compute"
    /\ unit.last0 # None
    /\ unit.now < unit.last0
    /\ unit.dt = DT_MIN
    /\ unit.e # unit.prev0
    /\ Abs(unit.out) = PID_LIMIT * SpeedUnit

(* C17: after any sequence of compute calls, reset() then compute(e) gives *)
(* the output, integral and previous error that compute(e) gives on a      *)
(* newly constructed controller, whatever the earlier calls and the clock: *)
(* the default time step is used and the derivative is against 0           *)
C17_ResetIsFresh ==
    (unit.fn = "pid" /\ unit.op = "compute" /\ unit.was = "reset") =>
        /\ unit.dt = DT_DEFAULT
        /\ unit.prev0 = 0 /\ unit.int0 = 0
        /\ \A t \in Instants :
              LET f == PIDCompute(PIDFresh, unit.e, t)
              IN  /\ unit.out = f.out
                  /\ pid.int = f.pid.int
                  /\ pid.prev = f.pid.prev

(* C17 witness: a compute with a nonzero error right after a reset that    *)
(* cleared a nonzero integral and previous error                           *)
C17_Witness ==
    /\ unit.fn = "pid" /\ unit.op = "compute" /\ unit.was = "reset"
    /\ unit.dirty
    /\ unit.calls >= 2
    /\ unit.e # 0
    /\ unit.out # 0
    /\ pid.int = unit.e * DT_DEFAULT

C19_TransitionStructure ==
    /\ state \in {"SEARCH", "LOCKON", "APPROACH", "PUSH"}
    /\ (Ticked /\ state # tick.state0) =>
          <<tick.state0, state>> \in
              {<<"SEARCH", "LOCKON">>, <<"LOCKON", "APPROACH">>,
               <<"LOCKON", "SEARCH">>, <<"APPROACH", "PUSH">>,
               <<"APPROACH", "SEARCH">>, <<"PUSH", "SEARCH">>}
    /\ (Ticked /\ state = "PUSH") => tick.state0 \in {"APPROACH", "PUSH"}
    /\ (Ticked /\ state = "APPROACH") => tick.state0 \in {"LOCKON", "APPROACH"}

(* C19 witness: an aligned LOCKON tick has just entered APPROACH *)
C19_Witness ==
    /\ NoEdgeSeen
    /\ tick.state0 = "LOCKON"
    /\ tick.us_l # None /\ tick.us_r # None
    /\ Abs(tick.us_l - tick.us_r) < 2
    /\ state = "APPROACH"

(* C20: every blocking maneuver the loop issues (edge reverse and rotate,  *)
(* LOCKON forward nudge, push-timeout reverse and rotate) has a strictly   *)
(* positive duration; the edge recovery's reverse runs for the configured  *)
(* edge backup time and its rotate for the configured edge rotate time     *)
C20_ManeuverDurations ==
    /\ \A i \in 1..Len(tick.cmds) :
          tick.cmds[i].op = "on_for" => tick.cmds[i].sec > 0
    /\ tick.branch = "edge" =>
          /\ tick.cmds[2].op = "on_for"
          /\ tick.cmds[2].sec = EDGE_BACKUP_TIME
          /\ tick.cmds[4].op = "on_for"
          /\ tick.cmds[4].sec = EDGE_ROTATE_TIME

====
